---------------------------- MODULE Spec2Model ----------------------------
(***************************************************************************)
(* A model of the GithubCDN SDK (class GithubCDN, whose source is the      *)
(* second half of src/github_cdn_package/USAGE.md, lines 217-560).         *)
(*                                                                         *)
(* Two state machines share this module:                                   *)
(*                                                                         *)
(*   Spec       the mutating pipelines upload / delete / sync, run by      *)
(*              concurrent callers against one Git repository (the Git     *)
(*              Data API: blobs, trees, commits, one branch ref);          *)
(*   SpecFetch  one run of fetch(): the manifest read, the pool of chunk   *)
(*              downloads with the primary -> secondary fallback, and the   *)
(*              reorder map that feeds the ReadableStream.                 *)
(*   SpecWindow the same fetch machine on an asset of more chunks than the  *)
(*              worker pool of 10 takes at once, every response a success. *)
(*                                                                         *)
(* Every `await this.request(...)` / `await fetch(...)` of the source is   *)
(* one step: the code between two awaits runs without interleaving (one    *)
(* JavaScript thread), the remote call itself takes effect atomically at   *)
(* the server and may fail.                                                 *)
(***************************************************************************)
EXTENDS Integers, Sequences, FiniteSets, TLC

(***************************************************************************)
(* Bounds of the model.                                                    *)
(***************************************************************************)
\* Operations (upload, delete, sync) started in one behaviour of Spec.
MaxOps == 2
\* The chunk size the byte-level runs use in place of CHUNK_SIZE (5 MiB).
ChunkBytes == 2
\* The longest buffer SpecFetch uploads and fetches, in bytes.
MaxBufLen == 5
\* Responses that fail (not ok, or rejected) in one behaviour of SpecFetch.
MaxFaults == 2
\* The chunks of the asset SpecWindow fetches (WINDOW + 2).
WindowChunks == 12

(***************************************************************************)
(* Program constants.                                                      *)
(***************************************************************************)
\* const CHUNK_SIZE = 5 * 1024 * 1024
CHUNK_SIZE == 5 * 1024 * 1024
\* if (workers.length >= 10) await Promise.race(workers)
WINDOW == 10

\* The callers that run pipelines concurrently.
Procs == {"p1", "p2"}
\* Byte values.
Bytes == {0, 1}

VARIABLES
    head,           \* refs/heads/<config.branch>: the commit the branch points to
    reflog,         \* history: every commit the branch has pointed to, in order
    defaultIsBranch,\* whether config.branch is the repository's default branch
    nextId,         \* source of uniqueId (random + timestamp): never repeats
    ops,            \* operations started so far
    pl              \* per caller: the locals of the pipeline it is running

storeVars == <<head, reflog, defaultIsBranch, nextId, ops, pl>>

VARIABLES
    fbuf,           \* the buffer whose upload published the asset being fetched
    repo,           \* the tree both mirrors serve (the branch's tree under uploads/)
    manifest,       \* fetch: const manifest
    fpc,            \* fetch: where fetch() is before the stream exists
    stream,         \* the ReadableStream: none / open / closed / errored
    startPc,        \* start(): awaiting Promise.race, Promise.all, or returned
    loopI,          \* start(): the loop variable i, the next download to launch
    dl,             \* per chunk index: where download(i) is
    chunkMap,       \* start(): const chunkMap
    next,           \* start(): let next
    out,            \* what controller.enqueue was given, in order
    workers,        \* start(): const workers (the indices of its promises)
    faults,         \* failing responses the network may still produce
    wire            \* per path asked: its requests and their answers, in order

fetchVars == <<fbuf, repo, manifest, fpc, stream, startPc, loopI, dl, chunkMap,
               next, out, workers, faults, wire>>

VARIABLES
    bucket,         \* EthicalRateLimiter: this.bucket (tokens, lastRefill)
    now,            \* the clock Date.now() reads
    reply           \* the limiter call that returned last, with what it saw
limiterVars == <<bucket, now, reply>>
vars == <<storeVars, fetchVars, limiterVars>>

(***************************************************************************)
(* Paths, blobs and trees.                                                  *)
(* A path is the sequence of its segments, so that String.startsWith on a  *)
(* directory prefix is the prefix order on sequences.  A blob is modelled  *)
(* by its content (Git objects are content addressed; the sha is a name    *)
(* for the content), tagged with what the bytes encode.                    *)
(***************************************************************************)
RegistryPath == <<"registry.json">>
ReadmePath == <<"README.md">>
\* path = `uploads/${yyyy}_${mm}/${uniqueId}_${name}`
AssetPath(id) == <<"uploads", id>>
\* `${path}/chunk_${i + 1}`
ChunkPath(prefix, i) == prefix \o <<"chunk_" \o ToString(i)>>
\* `${path}/manifest.json`
ManifestPath(prefix) == prefix \o <<"manifest.json">>

\* i.path.startsWith(folderPath)
StartsWith(path, prefix) ==
    /\ Len(prefix) <= Len(path)
    /\ SubSeq(path, 1, Len(prefix)) = prefix

\* i.path.endsWith("manifest.json")
EndsWithManifest(path) ==
    /\ Len(path) >= 1
    /\ path[Len(path)] = "manifest.json"

ChunkBlob(bytes) == [kind |-> "chunk", bytes |-> bytes]
ManifestBlob(m) == [kind |-> "manifest", m |-> m]
RegistryBlob(assets) == [kind |-> "registry", assets |-> assets]
FileBlob == [kind |-> "file"]
\* blob.sha of a response body that carries no sha (a request that did not
\* succeed but was not rejected)
NoBlob == [kind |-> "undefined"]

EmptyTree == [p \in {} |-> FileBlob]
\* POST /git/trees with base_tree: the base tree with the items laid over it.
Overlay(base, items) ==
    [p \in (DOMAIN base) \cup (DOMAIN items) |->
        IF p \in DOMAIN items THEN items[p] ELSE base[p]]
Single(path, blob) == [p \in {path} |-> blob]
\* a tree created from the items alone
TreeOfItems(base, items) == items
\* POST /git/trees {base_tree: baseSha, tree: treeItems} (upload, sync)
TreeOver(base, items) == Overlay(base, items)

(***************************************************************************)
(* Chunker: upload's loop `buffer.slice(i*CHUNK_SIZE, min((i+1)*CHUNK_SIZE, *)
(* totalSize))`, i = 0..totalChunks-1, with the chunk size as a parameter. *)
(***************************************************************************)
Min(a, b) == IF a <= b THEN a ELSE b
\* a chunk count that rounds down
TotalChunksFloor(totalSize, chunkSize) == totalSize \div chunkSize
\* Math.ceil(totalSize / CHUNK_SIZE)
TotalChunks(totalSize, chunkSize) == (totalSize + chunkSize - 1) \div chunkSize
\* a slice that takes the byte at `to` as well
SliceInclusive(buffer, from, to) == SubSeq(buffer, from + 1, Min(to + 1, Len(buffer)))
\* buffer.slice(from, to): bytes from+1 .. to of the 1-based sequence
Slice(buffer, from, to) == SubSeq(buffer, from + 1, to)
\* the bounds of the slice of iteration i = n - 1: i * CHUNK_SIZE and
\* Math.min((i + 1) * CHUNK_SIZE, totalSize)
ChunkFrom(n, chunkSize) == (n - 1) * chunkSize
ChunkTo(n, chunkSize, totalSize) == Min(n * chunkSize, totalSize)
\* the chunk pushed as chunk_${i + 1} (n = i + 1)
ChunkOf(buffer, n, chunkSize) ==
    Slice(buffer, ChunkFrom(n, chunkSize), ChunkTo(n, chunkSize, Len(buffer)))

(***************************************************************************)
(* Manifest and registry records.                                          *)
(***************************************************************************)
\* `type` of the input: file.type, or "application/octet-stream" for a Buffer
MimeType == "application/octet-stream"
\* now.toISOString(): `now` is taken right after uniqueId, whose second half
\* is Date.now(); the instant is named by the id
UploadedAt(id) == id
MakeManifest(id, name, buffer, chunkSize) ==
    [id |-> id, fileName |-> name,
     totalChunks |-> TotalChunks(Len(buffer), chunkSize),
     chunkSize |-> chunkSize, totalSize |-> Len(buffer),
     mimeType |-> MimeType, pathPrefix |-> AssetPath(id),
     uploadedAt |-> UploadedAt(id)]
MakeAsset(id, name, buffer) ==
    [id |-> id, name |-> name, size |-> Len(buffer), type |-> MimeType,
     path |-> AssetPath(id), uploadedAt |-> UploadedAt(id)]
\* an entry without the manifest's type and date
AssetUntyped(m) ==
    [id |-> m.id, name |-> m.fileName, size |-> m.totalSize, path |-> m.pathPrefix]
\* recovered.push({id: data.id, name: data.fileName, size: data.totalSize,
\*   type: data.mimeType, path: data.pathPrefix, uploadedAt: data.uploadedAt})
AssetOfManifest(m) ==
    [id |-> m.id, name |-> m.fileName, size |-> m.totalSize, type |-> m.mimeType,
     path |-> m.pathPrefix, uploadedAt |-> m.uploadedAt]

\* a purge that refuses an id the registry does not list
PurgeRejectsAbsent(assets, id) == \A k \in DOMAIN assets : assets[k].id # id
\* delete() does not look whether the registry lists the id: filtering an
\* absent id leaves the registry as it is and nothing is thrown
PurgeRejects(assets, id) == FALSE
\* registry.filter(a => a.id !== id)
RECURSIVE DropId(_, _)
DropId(assets, id) ==
    IF assets = <<>> THEN <<>>
    ELSE IF Head(assets).id = id THEN DropId(Tail(assets), id)
         ELSE <<Head(assets)>> \o DropId(Tail(assets), id)

\* treeItems.push({path: `${path}/chunk_${i + 1}`, ..., sha: blob.sha})
ChunkItem(id, buffer, n) ==
    Single(ChunkPath(AssetPath(id), n), ChunkBlob(ChunkOf(buffer, n, ChunkBytes)))
\* treeItems.push({path: `${path}/manifest.json`, ..., sha: mBlob.sha})
ManifestItem(id, name, buffer) ==
    Single(ManifestPath(AssetPath(id)),
           ManifestBlob(MakeManifest(id, name, buffer, ChunkBytes)))
\* the chunk and manifest entries a completed upload has put in the tree
RECURSIVE ChunkItems(_, _, _)
ChunkItems(id, buffer, n) ==
    IF n = 0 THEN EmptyTree
    ELSE Overlay(ChunkItems(id, buffer, n - 1), ChunkItem(id, buffer, n))
UploadedItems(id, name, buffer) ==
    Overlay(ChunkItems(id, buffer, TotalChunks(Len(buffer), ChunkBytes)),
            ManifestItem(id, name, buffer))

(***************************************************************************)
(* The Git repository as the SDK sees it.                                  *)
(***************************************************************************)
\* A commit is modelled by its content, like a blob: its tree, its parent
\* commit (itself a content, so a commit carries its whole history, as a Git
\* sha does), its message and the moment it was created (stamp: the number of
\* the operation that created it; two operations never create the same commit).
NoCommit == [stamp |-> 0]
\* the commits reachable from c through parent links, c included
RECURSIVE Ancestry(_)
Ancestry(c) ==
    IF c = NoCommit THEN {} ELSE {c} \cup Ancestry(c.parent)
\* the first commit of c's history
RECURSIVE Root(_)
Root(c) == IF c.parent = NoCommit THEN c ELSE Root(c.parent)

\* a ref update sent with force: true
RefForce(h, c) == TRUE
\* PATCH /git/refs/heads/<branch> with body {sha} and no `force`: the server
\* moves the ref only when the update is a fast-forward, i.e. the commit the
\* ref points to is an ancestor of the new commit.
RefAccepts(h, c) == h \in Ancestry(c)

\* a request() that returns the body of a response that is not ok
ReqThrowsNever(ok) == FALSE
\* request(): `if (!res.ok) throw new Error(...)`; ok = FALSE also stands for
\* a fetch() that rejects (transport failure).
ReqThrows(ok) == ~ok

\* a uniqueId that repeats
StaleId(n) == 1
\* uniqueId = Math.random().toString(36).substring(2, 10) + "_" +
\*            Date.now().toString(36): a value no earlier upload produced.
FreshId(n) == n

\* the tree of the head GET /contents/registry.json reads: the request
\* carries no `ref`, so it is served from the repository's default branch.
\* A default branch other than config.branch is never written by the SDK and
\* stays at the repository's first commit.
ContentsTree == IF defaultIsBranch THEN head.tree ELSE Root(head).tree

\* what the try block of list() throws on: a response that is not ok (a 404
\* when registry.json is missing, any other failure of the read) or content
\* JSON.parse rejects
ListThrows(tree, ok) ==
    \/ ~ok
    \/ RegistryPath \notin DOMAIN tree
    \/ tree[RegistryPath].kind # "registry"
\* list(): the decoded registry, or [] when the read or the decoding throws
ListResult(tree, ok) ==
    IF ListThrows(tree, ok) THEN <<>> ELSE tree[RegistryPath].assets
\* a list() without its catch
ListRethrows(tree, ok) == ListThrows(tree, ok)
\* list(): `catch (e) { return []; }`: nothing is rethrown
ListRejects(tree, ok) == FALSE

\* a filter that drops everything under the folder's top directory
PurgeFilterTop(tree, folderPath) ==
    [q \in {r \in DOMAIN tree : folderPath # <<>> => r[1] # folderPath[1]} |-> tree[q]]
\* a filter that drops the folder's own entry only
PurgeFilterExact(tree, folderPath) ==
    [q \in {r \in DOMAIN tree : r # folderPath} |-> tree[q]]
\* treeData.tree.filter(i => !i.path.startsWith(folderPath))
PurgeFilter(tree, folderPath) ==
    [q \in {r \in DOMAIN tree : ~StartsWith(r, folderPath)} |-> tree[q]]

\* the manifests of a tree listing, in listing order (sorted by path)
RECURSIVE ManifestSeq(_, _)
ManifestSeq(tree, paths) ==
    IF paths = {} THEN <<>>
    ELSE LET q == CHOOSE r \in paths : \A r2 \in paths : r[2] <= r2[2]
         IN <<tree[q]>> \o ManifestSeq(tree, paths \ {q})
ManifestsOf(tree) ==
    ManifestSeq(tree, {q \in DOMAIN tree : EndsWithManifest(q)})
\* a sync that starts from the entries registry.json already holds
SyncSeedsRegistry(tree) == ListResult(tree, TRUE)
\* const recovered: CDNAsset[] = []: sync never reads the old registry.json
SyncSeed(tree) == <<>>
\* for (const m of manifests) recovered.push({...})
RECURSIVE Recovered(_)
Recovered(ms) ==
    IF ms = <<>> THEN <<>>
    ELSE <<AssetOfManifest(Head(ms).m)>> \o Recovered(Tail(ms))

(***************************************************************************)
(* Pipeline locals.                                                         *)
(***************************************************************************)
Idle ==
    [op |-> "idle", pc |-> "idle", id |-> 0, name |-> "", buffer |-> <<>>,
     folderPath |-> <<>>, stamp |-> 0, baseSha |-> NoCommit, i |-> 0,
     treeItems |-> EmptyTree, registry |-> <<>>, tree |-> EmptyTree,
     commit |-> NoCommit, failedAt |-> "none", reqFailed |-> "none",
     recovered |-> -1, events |-> <<>>, calls |-> <<>>, shape |-> "none"]

\* a throw inside the pipeline: the promise rejects, nothing after it runs.
\* What stays is what the caller holds: the arguments and the error (the
\* step that threw); the pipeline's other locals are dead.
Fail(l, at) ==
    [Idle EXCEPT !.op = l.op, !.pc = "failed", !.failedAt = at, !.id = l.id,
                 !.name = l.name, !.buffer = l.buffer, !.folderPath = l.folderPath,
                 !.stamp = l.stamp, !.reqFailed = l.reqFailed,
                 !.events = l.events, !.calls = l.calls,
                 !.shape = l.shape]
\* the pipeline returned: the arguments, the commit it published and, for
\* sync, the result {recovered: recovered.length}
Done(l) ==
    [Idle EXCEPT !.op = l.op, !.pc = "done", !.id = l.id, !.name = l.name,
                 !.buffer = l.buffer, !.folderPath = l.folderPath,
                 !.stamp = l.stamp, !.baseSha = l.baseSha, !.commit = l.commit,
                 !.reqFailed = l.reqFailed,
                 !.recovered = IF l.op = "sync" THEN Len(l.registry) ELSE -1,
                 !.events = l.events, !.calls = l.calls,
                 !.shape = l.shape]
\* what the pipeline saw of a request: res.ok (or a rejected fetch) of the
\* request issued at step `at`
Seen(l, ok, at) == IF ok THEN l ELSE [l EXCEPT !.reqFailed = at]
\* a commit created on whatever the branch points to when it is created
CommitOnHead(l, message) ==
    [stamp |-> l.stamp, tree |-> l.tree, parent |-> head, message |-> message]
\* the body of POST /git/commits: {message, tree: tree.sha, parents: [baseSha]}
CommitOf(l, message) ==
    [stamp |-> l.stamp, tree |-> l.tree, parent |-> l.baseSha, message |-> message]

\* the uniqueIds the uploads behind a tree have used
IdsIn(tree) == {q[2] : q \in {r \in DOMAIN tree : Len(r) >= 2}}
Names == {"a.bin"}
\* the buffer concurrent callers upload (Spec): one full chunk followed by a
\* shorter one
UploadInputs == {[shape |-> "blob", bytes |-> [k \in 1..(ChunkBytes + 1) |-> 0]]}
\* the buffers a single caller uploads (SpecSolo): every size from the empty
\* buffer to MaxBufLen bytes (SpecFetch takes every content of these sizes)
AnyBuffers == {[k \in 1..n |-> 0] : n \in 0..MaxBufLen}
\* what a single caller passes to upload(): a Blob or File of every size, a
\* Buffer, a {name, type, buffer: ArrayBuffer} object, and a value that is
\* none of them (a string form field, an object whose buffer is no ArrayBuffer)
AnyInputs ==
    {[shape |-> "blob", bytes |-> b] : b \in AnyBuffers}
    \cup {[shape |-> s, bytes |-> <<0>>] : s \in {"buffer", "object", "other"}}
\* the folderPath arguments delete() is called with for asset id
PurgePaths(id) == {AssetPath(id), <<"uploads">>}

\* the ids a caller can pass to delete(): those of the assets the branch has
\* held (an id comes from upload's result or from list())
KnownIds == UNION {IdsIn(reflog[k].tree) : k \in 1..Len(reflog)}

\* The callers are interchangeable names for calls: a call is made under the
\* name p1 when p1 is free, under p2 when it starts while p1's call runs.
Running(p) == pl[p].pc \notin {"idle", "done", "failed"}
CanStart(p) ==
    /\ ~Running(p)
    /\ ops < MaxOps
    /\ p = "p1" \/ Running("p1")

(***************************************************************************)
(* Events.  `events` of a pipeline is what its onUpdate callback was given,*)
(* in order, followed by what the route handler that runs the pipeline     *)
(* enqueues itself (the error event of its catch); for upload and delete   *)
(* it is what the route's stream delivers.                                 *)
(***************************************************************************)
\* a number as JavaScript has it: NaN, or a value
NaN == [nan |-> TRUE, v |-> 0]
Num(v) == [nan |-> FALSE, v |-> v]
\* Math.round(((progress.currentChunk || 0) / totalChunks) * 100): 0 / 0 is
\* NaN and Math.round(NaN) is NaN; Math.round rounds halves up
Percentage(currentChunk, totalChunks) ==
    IF totalChunks = 0 THEN NaN
    ELSE Num((200 * currentChunk + totalChunks) \div (2 * totalChunks))
\* the progress object of emit(message, logType, {currentChunk})
Progress(l, currentChunk) ==
    LET totalChunks == TotalChunks(Len(l.buffer), ChunkBytes) IN
    [percentage |-> Percentage(currentChunk, totalChunks),
     currentChunk |-> currentChunk,
     totalChunks |-> totalChunks,
     loaded |-> currentChunk * ChunkBytes,
     total |-> Len(l.buffer)]
\* {type: "log", message, logType, progress}: progress is <<>> when undefined
Log(message, progress) == [type |-> "log", message |-> message, progress |-> progress]
DoneEvent == [type |-> "done", message |-> "done", progress |-> <<>>]
ErrorEvent == [type |-> "error", message |-> "error", progress |-> <<>>]
\* a route handler whose catch enqueues nothing
RouteSwallows(l) == <<>>
\* the route handler's catch: controller.enqueue({type: "error", ...})
RouteCatch(l) == <<ErrorEvent>>
\* a pipeline that reports success when it sends the ref update
AnnouncesEarly(l) == l.pc = "patch"
\* emit("Upload successful.") / emit("Purge verified.") and the done event
\* follow `await this.request(`/git/refs/heads/...`, {method: "PATCH"})`
Announces(l) == l.pc = "done"
\* what upload() emits between the await it has left and the one it has
\* reached (l.pc), or its return; the route's catch adds the error event
UploadEmits(l) ==
    LET total == TotalChunks(Len(l.buffer), ChunkBytes) IN
    CASE l.pc = "ref" -> <<Log("Inverting Data", <<Progress(l, 0)>>)>>
      [] l.pc = "chunk" ->
            <<Log("Pushing chunk " \o ToString(l.i + 1), <<Progress(l, l.i + 1)>>)>>
      [] l.pc = "manifest" -> <<Log("Finalizing manifest...", <<Progress(l, total)>>)>>
      [] l.pc = "list" -> <<Log("Synchronizing registry...", <<>>)>>
      [] l.pc = "tree" -> <<Log("Creating atomic commit...", <<>>)>>
      [] Announces(l) ->
            <<Log("Upload successful.", <<Progress(l, total)>>), DoneEvent>>
      [] l.pc = "failed" -> RouteCatch(l)
      [] OTHER -> <<>>
\* what delete() emits on the way to l.pc; the route's catch adds the error
DeleteEmits(l) ==
    CASE l.pc = "ref" -> <<Log("Purging entry", <<>>)>>
      [] l.pc = "gettree" -> <<Log("Filtering repository tree...", <<>>)>>
      [] l.pc = "regblob" -> <<Log("Patching registry index...", <<>>)>>
      [] l.pc = "tree" -> <<Log("Committing physical scrub...", <<>>)>>
      [] Announces(l) -> <<Log("Purge verified.", <<>>), DoneEvent>>
      [] l.pc = "failed" -> RouteCatch(l)
      [] OTHER -> <<>>
\* what sync() emits on the way to l.pc (no route runs sync: a rejection
\* adds no event)
SyncEmits(l) ==
    CASE l.pc = "ref" -> <<Log("Scanning deep structure...", <<>>)>>
      [] l.pc = "registry" -> <<Log("Found candidate manifests", <<>>)>>
      [] l.pc = "done" -> <<Log("Recovery complete", <<>>)>>
      [] OTHER -> <<>>
Emits(l) ==
    CASE l.op = "upload" -> UploadEmits(l)
      [] l.op = "delete" -> DeleteEmits(l)
      [] l.op = "sync" -> SyncEmits(l)
      [] OTHER -> <<>>
\* a chunk loop that posts every remaining chunk without awaiting
ChunkBurstAll(i, total) == total - i
\* the chunk loop awaits each POST /git/blobs before its next iteration: one
\* chunk write is issued per iteration
ChunkBurst(i, total) == 1
\* the request the pipeline issues and awaits at l.pc: every step but the
\* ends is one `await this.request(...)` (sync's scan reads the tree and then
\* the manifest blobs), named after the step
Issues(l) ==
    IF l.pc \in {"idle", "done", "failed"} THEN <<>>
    ELSE IF l.pc = "chunk"
    THEN [k \in 1..ChunkBurst(l.i, TotalChunks(Len(l.buffer), ChunkBytes)) |-> "chunk"]
    ELSE <<l.pc>>
\* the pipeline goes on to its next await (or ends) with the locals l
Set(p, l) ==
    pl' = [pl EXCEPT ![p] = [l EXCEPT !.events = @ \o Emits(l),
                                      !.calls = @ \o Issues(l)]]

EmptyMap == [j \in {} |-> <<>>]
NoManifest == [id |-> "none", totalChunks |-> 0]
\* no fetch() runs
InitNoFetch ==
    /\ fbuf = <<>>
    /\ repo = EmptyTree
    /\ manifest = NoManifest
    /\ fpc = "none"
    /\ stream = "none"
    /\ startPc = "none"
    /\ loopI = 1
    /\ dl = <<>>
    /\ chunkMap = EmptyMap
    /\ next = 1
    /\ out = <<>>
    /\ workers = {}
    /\ faults = 0
    /\ wire = [j \in {} |-> <<>>]

\* The repositories the SDK is pointed at.  An asset already in the store
\* is what an earlier upload (uniqueId 1) of StockBuffer published.
StockBuffer == [k \in 1..(ChunkBytes + 1) |-> 0]
StockItems == UploadedItems(1, "a.bin", StockBuffer)
StockAsset == MakeAsset(1, "a.bin", StockBuffer)
\* what the repository holds besides the SDK's files
BareTree == Single(ReadmePath, FileBlob)
\* a repository holding one asset, registered
StockedTree ==
    Overlay(Overlay(BareTree, StockItems),
            Single(RegistryPath, RegistryBlob(<<StockAsset>>)))
\* a repository holding one asset whose registry.json was deleted
OrphanedTree == Overlay(BareTree, StockItems)
\* a repository holding one asset whose registry.json is not JSON
GarbledTree == Overlay(OrphanedTree, Single(RegistryPath, FileBlob))
\* a repository whose registry.json still lists an asset whose files are gone
StaleTree == Overlay(BareTree, Single(RegistryPath, RegistryBlob(<<StockAsset>>)))
InitTrees == {StockedTree, OrphanedTree, GarbledTree, StaleTree}

(***************************************************************************)
(* The token bucket of EthicalRateLimiter.  Tokens are counted in fractions *)
(* of a token (Unit fractions make one token) and the clock in ticks.       *)
(***************************************************************************)
\* fractions of a token the model tells apart
Unit == 2
\* constructor(capacity): the bucket's capacity, in tokens
LimiterCapacity == 3
\* this.bucket.refillRate: fractions of a token added per tick
RefillRate == 1
\* the last tick of the clock
MaxTick == 3
\* the largest cost a caller asks for, in fractions of a token
MaxCost == 7
capacity == LimiterCapacity * Unit
Costs == 0..MaxCost

\* refill without the Math.min against capacity
RefilledUncapped(tokens, elapsed) == tokens + elapsed * RefillRate
\* Math.min(capacity, tokens + elapsedSeconds * refillRate)
Refilled(tokens, elapsed) == Min(capacity, tokens + elapsed * RefillRate)
\* refill(): tokens topped up for the time since lastRefill, lastRefill = now
refill(b, t) == [tokens |-> Refilled(b.tokens, t - b.lastRefill), lastRefill |-> t]

NoReply == [call |-> "none", cost |-> 0, ok |-> FALSE, tokens |-> 0,
            fraction |-> <<0, 1>>, was |-> [tokens |-> 0, lastRefill |-> 0], at |-> 0]
\* new EthicalRateLimiter(): a full bucket stamped with the construction time
InitBucket ==
    /\ now = 0
    /\ bucket = [tokens |-> capacity, lastRefill |-> now]
    /\ reply = NoReply

\* time passes between two calls
Tick ==
    /\ now < MaxTick
    /\ now' = now + 1
    /\ UNCHANGED <<bucket, reply, storeVars, fetchVars>>
\* acquire(cost): refill, then take cost tokens if the bucket holds them
acquire(cost) ==
    LET b == refill(bucket, now)
        ok == b.tokens >= cost
    IN  /\ bucket' = IF ok THEN [b EXCEPT !.tokens = b.tokens - cost] ELSE b
        /\ reply' = [call |-> "acquire", cost |-> cost, ok |-> ok,
                     tokens |-> 0, fraction |-> <<0, 1>>, was |-> bucket, at |-> now]
        /\ UNCHANGED <<now, storeVars, fetchVars>>
\* getStatus(): refill, then report whole tokens, capacity and the fill ratio
getStatus ==
    LET b == refill(bucket, now)
    IN  /\ bucket' = b
        /\ reply' = [call |-> "getStatus", cost |-> 0, ok |-> FALSE,
                     tokens |-> b.tokens \div Unit,
                     fraction |-> <<b.tokens * 100, capacity>>,
                     was |-> bucket, at |-> now]
        /\ UNCHANGED <<now, storeVars, fetchVars>>

Init ==
    /\ \E t \in InitTrees :
          /\ head = [stamp |-> -1, tree |-> t, parent |-> NoCommit,
                     message |-> <<"init">>]
          /\ nextId = StockAsset.id + 1
          /\ defaultIsBranch \in (IF t = StockedTree THEN BOOLEAN ELSE {TRUE})
    /\ reflog = <<head>>
    /\ ops = 0
    /\ pl = [p \in Procs |-> Idle]
    /\ InitNoFetch
    /\ InitBucket

(***************************************************************************)
(* The ref read and the ref update, shared by the three pipelines.         *)
(***************************************************************************)
\* const ref = await this.request(`/git/refs/heads/${branch}`)
GetRef(p, nextPc) ==
    /\ pl[p].pc = "ref"
    /\ \E ok \in BOOLEAN :
          IF ~ok THEN Set(p, Fail(Seen(pl[p], ok, "ref"), "ref"))
          ELSE Set(p, [pl[p] EXCEPT !.baseSha = head, !.pc = nextPc])
    /\ UNCHANGED <<head, reflog, defaultIsBranch, nextId, ops>>
    /\ UNCHANGED <<fetchVars, limiterVars>>

\* POST /git/commits {message, tree, parents: [baseSha]}
PostCommit(p, message) ==
    /\ pl[p].pc = "commit"
    /\ \E ok \in BOOLEAN :
          IF ReqThrows(ok) THEN Set(p, Fail(Seen(pl[p], ok, "commit"), "commit"))
          ELSE Set(p, [Seen(pl[p], ok, "commit") EXCEPT
                 !.commit = CommitOf(pl[p], message), !.pc = "patch"])
    /\ UNCHANGED <<head, reflog, defaultIsBranch, nextId, ops>>
    /\ UNCHANGED <<fetchVars, limiterVars>>

\* await this.request(`/git/refs/heads/${branch}`, {method: "PATCH",
\*                    body: JSON.stringify({sha: commit.sha})})
PatchRef(p) ==
    /\ pl[p].pc = "patch"
    /\ \E net \in BOOLEAN :
          LET resOk == net /\ RefAccepts(head, pl[p].commit) IN
          /\ IF resOk
             THEN /\ head' = pl[p].commit
                  /\ reflog' = Append(reflog, pl[p].commit)
             ELSE UNCHANGED <<head, reflog>>
          /\ IF ReqThrows(resOk)
             THEN Set(p, Fail(Seen(pl[p], resOk, "patch"),
                              IF net THEN "conflict" ELSE "patch"))
             ELSE Set(p, Done(Seen(pl[p], resOk, "patch")))
    /\ UNCHANGED <<defaultIsBranch, nextId, ops>>
    /\ UNCHANGED <<fetchVars, limiterVars>>

(***************************************************************************)
(* upload(input, onUpdate)                                                  *)
(***************************************************************************)
\* an upload that takes whatever it is given as bytes
SupportsAny(shape) == TRUE
\* if (input instanceof Blob) ... else if (Buffer.isBuffer(input)) ... else if
\* ("buffer" in input && input.buffer instanceof ArrayBuffer) ... else throw
Supported(shape) == shape \in {"blob", "buffer", "object"}

\* upload(input, onUpdate) up to its first await of a request: the input is
\* resolved to a buffer or the call throws, before uniqueId is drawn, before
\* the first emit and before the head read
UploadBegin(p, inputs) ==
    /\ CanStart(p)
    /\ \E input \in inputs, name \in Names :
          IF Supported(input.shape)
          THEN /\ Set(p, [Idle EXCEPT !.op = "upload", !.pc = "ref",
                                      !.stamp = ops + 1,
                                      !.id = FreshId(nextId), !.name = name,
                                      !.buffer = input.bytes,
                                      !.shape = input.shape])
               /\ nextId' = nextId + 1
          ELSE /\ Set(p, Fail([Idle EXCEPT !.op = "upload", !.stamp = ops + 1,
                                           !.shape = input.shape], "input"))
               /\ UNCHANGED nextId
    /\ ops' = ops + 1
    /\ UNCHANGED <<head, reflog, defaultIsBranch>>
    /\ UNCHANGED <<fetchVars, limiterVars>>

UploadStart(p) == UploadBegin(p, UploadInputs)
UploadStartAny(p) == UploadBegin(p, AnyInputs)

UploadGetRef(p) ==
    /\ pl[p].op = "upload"
    /\ GetRef(p, IF TotalChunks(Len(pl[p].buffer), ChunkBytes) = 0
                 THEN "manifest" ELSE "chunk")

\* an upload that goes on to the manifest once its first chunk is written
AfterFirstChunk(n, total) == "manifest"
\* `for (let i = 0; i < totalChunks; i++)`: the loop ends after chunk total
AfterChunk(n, total) == IF n = total THEN "manifest" ELSE "chunk"

\* one iteration of `for (let i = 0; i < totalChunks; i++)`: POST /git/blobs
UploadChunk(p) ==
    LET l == pl[p]
        total == TotalChunks(Len(l.buffer), ChunkBytes)
        n == l.i + 1
    IN
    /\ l.op = "upload"
    /\ l.pc = "chunk"
    /\ \E ok \in BOOLEAN :
          IF ReqThrows(ok) THEN Set(p, Fail(Seen(l, ok, "chunk"), "chunk"))
          ELSE Set(p, [Seen(l, ok, "chunk") EXCEPT
                 !.treeItems = Overlay(@,
                     IF ok THEN ChunkItem(l.id, l.buffer, n)
                     ELSE Single(ChunkPath(AssetPath(l.id), n), NoBlob)),
                 !.i = n,
                 !.pc = AfterChunk(n, total)])
    /\ UNCHANGED <<head, reflog, defaultIsBranch, nextId, ops>>
    /\ UNCHANGED <<fetchVars, limiterVars>>

\* POST /git/blobs with the manifest
UploadManifest(p) ==
    LET l == pl[p] IN
    /\ l.op = "upload"
    /\ l.pc = "manifest"
    /\ \E ok \in BOOLEAN :
          IF ReqThrows(ok) THEN Set(p, Fail(Seen(l, ok, "manifest"), "manifest"))
          ELSE Set(p, [Seen(l, ok, "manifest") EXCEPT
                 !.treeItems = Overlay(@,
                     IF ok THEN ManifestItem(l.id, l.name, l.buffer)
                     ELSE Single(ManifestPath(AssetPath(l.id)), NoBlob)),
                 !.pc = "list"])
    /\ UNCHANGED <<head, reflog, defaultIsBranch, nextId, ops>>
    /\ UNCHANGED <<fetchVars, limiterVars>>

\* const registry = await this.list(); registry.unshift(newAsset)
UploadList(p) ==
    LET l == pl[p] IN
    /\ l.op = "upload"
    /\ l.pc = "list"
    /\ \E ok \in BOOLEAN :
          IF ListRejects(ContentsTree, ok)
          THEN Set(p, Fail(Seen(l, ok, "list"), "list"))
          ELSE Set(p, [Seen(l, ok, "list") EXCEPT
                 !.registry = <<MakeAsset(l.id, l.name, l.buffer)>>
                                 \o ListResult(ContentsTree, ok),
                 !.pc = "registry"])
    /\ UNCHANGED <<head, reflog, defaultIsBranch, nextId, ops>>
    /\ UNCHANGED <<fetchVars, limiterVars>>

\* POST /git/blobs with the registry
UploadRegistry(p) ==
    LET l == pl[p] IN
    /\ l.op = "upload"
    /\ l.pc = "registry"
    /\ \E ok \in BOOLEAN :
          IF ReqThrows(ok) THEN Set(p, Fail(Seen(l, ok, "registry"), "registry"))
          ELSE Set(p, [Seen(l, ok, "registry") EXCEPT
                 !.treeItems = Overlay(@, Single(RegistryPath,
                     IF ok THEN RegistryBlob(l.registry) ELSE NoBlob)),
                 !.pc = "tree"])
    /\ UNCHANGED <<head, reflog, defaultIsBranch, nextId, ops>>
    /\ UNCHANGED <<fetchVars, limiterVars>>

\* POST /git/trees {base_tree: baseSha, tree: treeItems}
UploadTree(p) ==
    LET l == pl[p] IN
    /\ l.op = "upload"
    /\ l.pc = "tree"
    /\ \E ok \in BOOLEAN :
          IF ReqThrows(ok) THEN Set(p, Fail(Seen(l, ok, "tree"), "tree"))
          ELSE Set(p, [Seen(l, ok, "tree") EXCEPT
                 !.tree = TreeOver(l.baseSha.tree, l.treeItems),
                 !.pc = "commit"])
    /\ UNCHANGED <<head, reflog, defaultIsBranch, nextId, ops>>
    /\ UNCHANGED <<fetchVars, limiterVars>>

UploadCommit(p) ==
    /\ pl[p].op = "upload"
    /\ PostCommit(p, <<"CDN Upload", pl[p].name>>)

UploadUpdateRef(p) ==
    /\ pl[p].op = "upload"
    /\ PatchRef(p)

UploadSteps(p) ==
    \/ UploadGetRef(p)
    \/ UploadChunk(p)
    \/ UploadManifest(p)
    \/ UploadList(p)
    \/ UploadRegistry(p)
    \/ UploadTree(p)
    \/ UploadCommit(p)
    \/ UploadUpdateRef(p)
Upload(p) == UploadStart(p) \/ UploadSteps(p)

(***************************************************************************)
(* delete(id, folderPath, onUpdate)                                         *)
(***************************************************************************)
DeleteStart(p) ==
    /\ CanStart(p)
    /\ \E id \in KnownIds : \E folderPath \in PurgePaths(id) :
          Set(p, [Idle EXCEPT !.op = "delete", !.pc = "ref", !.stamp = ops + 1,
                              !.id = id,
                              !.folderPath = folderPath])
    /\ ops' = ops + 1
    /\ UNCHANGED <<head, reflog, defaultIsBranch, nextId>>
    /\ UNCHANGED <<fetchVars, limiterVars>>

DeleteGetRef(p) ==
    /\ pl[p].op = "delete"
    /\ GetRef(p, "gettree")

\* GET /git/trees/${headSha}?recursive=1, the filter, and the lookup of the
\* registry node; `regNode.sha` throws when the filter left no registry.json
DeleteGetTree(p) ==
    LET l == pl[p]
        filtered == PurgeFilter(l.baseSha.tree, l.folderPath)
    IN
    /\ l.op = "delete"
    /\ l.pc = "gettree"
    /\ \E ok \in BOOLEAN :
          IF ~ok THEN Set(p, Fail(Seen(l, ok, "gettree"), "gettree"))
          ELSE IF RegistryPath \notin DOMAIN filtered
          THEN Set(p, Fail(l, "regnode"))
          ELSE Set(p, [l EXCEPT !.treeItems = filtered, !.pc = "regblob"])
    /\ UNCHANGED <<head, reflog, defaultIsBranch, nextId, ops>>
    /\ UNCHANGED <<fetchVars, limiterVars>>

\* GET /git/blobs/${regNode.sha}; JSON.parse; registry.filter(a => a.id !== id)
DeleteGetRegistry(p) ==
    LET l == pl[p]
        blob == l.treeItems[RegistryPath]
    IN
    /\ l.op = "delete"
    /\ l.pc = "regblob"
    /\ \E ok \in BOOLEAN :
          IF ~ok THEN Set(p, Fail(Seen(l, ok, "regblob"), "regblob"))
          ELSE IF blob.kind # "registry" THEN Set(p, Fail(l, "parse"))
          ELSE IF PurgeRejects(blob.assets, l.id) THEN Set(p, Fail(l, "absent"))
          ELSE Set(p, [l EXCEPT !.registry = DropId(blob.assets, l.id),
                                !.pc = "registry"])
    /\ UNCHANGED <<head, reflog, defaultIsBranch, nextId, ops>>
    /\ UNCHANGED <<fetchVars, limiterVars>>

\* POST /git/blobs with the patched registry; finalTree repoints registry.json
DeletePostRegistry(p) ==
    LET l == pl[p] IN
    /\ l.op = "delete"
    /\ l.pc = "registry"
    /\ \E ok \in BOOLEAN :
          IF ReqThrows(ok) THEN Set(p, Fail(Seen(l, ok, "registry"), "registry"))
          ELSE Set(p, [Seen(l, ok, "registry") EXCEPT
                 !.treeItems = Overlay(@, Single(RegistryPath,
                     IF ok THEN RegistryBlob(l.registry) ELSE NoBlob)),
                 !.pc = "tree"])
    /\ UNCHANGED <<head, reflog, defaultIsBranch, nextId, ops>>
    /\ UNCHANGED <<fetchVars, limiterVars>>

\* POST /git/trees {tree: finalTree}: no base_tree, the tree is finalTree
DeleteTree(p) ==
    LET l == pl[p] IN
    /\ l.op = "delete"
    /\ l.pc = "tree"
    /\ \E ok \in BOOLEAN :
          IF ReqThrows(ok) THEN Set(p, Fail(Seen(l, ok, "tree"), "tree"))
          ELSE Set(p, [Seen(l, ok, "tree") EXCEPT !.tree = l.treeItems, !.pc = "commit"])
    /\ UNCHANGED <<head, reflog, defaultIsBranch, nextId, ops>>
    /\ UNCHANGED <<fetchVars, limiterVars>>

DeleteCommit(p) ==
    /\ pl[p].op = "delete"
    /\ PostCommit(p, <<"Scrub", pl[p].id>>)

DeleteUpdateRef(p) ==
    /\ pl[p].op = "delete"
    /\ PatchRef(p)

Delete(p) ==
    \/ DeleteStart(p)
    \/ DeleteGetRef(p)
    \/ DeleteGetTree(p)
    \/ DeleteGetRegistry(p)
    \/ DeletePostRegistry(p)
    \/ DeleteTree(p)
    \/ DeleteCommit(p)
    \/ DeleteUpdateRef(p)

(***************************************************************************)
(* sync(onUpdate)                                                           *)
(***************************************************************************)
SyncStart(p) ==
    /\ CanStart(p)
    /\ Set(p, [Idle EXCEPT !.op = "sync", !.pc = "ref", !.stamp = ops + 1])
    /\ ops' = ops + 1
    /\ UNCHANGED <<head, reflog, defaultIsBranch, nextId>>
    /\ UNCHANGED <<fetchVars, limiterVars>>

SyncGetRef(p) ==
    /\ pl[p].op = "sync"
    /\ GetRef(p, "gettree")

\* GET /git/trees/${ref.object.sha}?recursive=1, then one GET /git/blobs per
\* manifest found (reads of immutable objects: they see the same content
\* whenever they run, so the loop is one step; any of them may fail)
SyncScan(p) ==
    LET l == pl[p]
        ms == ManifestsOf(l.baseSha.tree)
        \* the locals once the tree was read and "Found ..." was emitted
        found == [l EXCEPT !.events = @ \o SyncEmits([l EXCEPT !.pc = "registry"])]
    IN
    /\ l.op = "sync"
    /\ l.pc = "gettree"
    /\ \E ok \in BOOLEAN :
          IF ~ok
          THEN \/ Set(p, Fail(Seen(l, ok, "gettree"), "gettree"))
               \/ /\ ms # <<>>
                  /\ Set(p, Fail(Seen(found, ok, "blob"), "blob"))
          ELSE IF \E k \in 1..Len(ms) : ms[k].kind # "manifest"
          THEN Set(p, Fail(found, "parse"))
          ELSE Set(p, [l EXCEPT !.registry = SyncSeed(l.baseSha.tree) \o Recovered(ms),
                               !.pc = "registry"])
    /\ UNCHANGED <<head, reflog, defaultIsBranch, nextId, ops>>
    /\ UNCHANGED <<fetchVars, limiterVars>>

\* POST /git/blobs with the recovered registry
SyncPostRegistry(p) ==
    LET l == pl[p] IN
    /\ l.op = "sync"
    /\ l.pc = "registry"
    /\ \E ok \in BOOLEAN :
          IF ReqThrows(ok) THEN Set(p, Fail(Seen(l, ok, "registry"), "registry"))
          ELSE Set(p, [Seen(l, ok, "registry") EXCEPT
                 !.treeItems = Single(RegistryPath,
                     IF ok THEN RegistryBlob(l.registry) ELSE NoBlob),
                 !.pc = "tree"])
    /\ UNCHANGED <<head, reflog, defaultIsBranch, nextId, ops>>
    /\ UNCHANGED <<fetchVars, limiterVars>>

\* POST /git/trees {base_tree: ref.object.sha, tree: [registry.json]}
SyncTree(p) ==
    LET l == pl[p] IN
    /\ l.op = "sync"
    /\ l.pc = "tree"
    /\ \E ok \in BOOLEAN :
          IF ReqThrows(ok) THEN Set(p, Fail(Seen(l, ok, "tree"), "tree"))
          ELSE Set(p, [Seen(l, ok, "tree") EXCEPT
                 !.tree = TreeOver(l.baseSha.tree, l.treeItems),
                 !.pc = "commit"])
    /\ UNCHANGED <<head, reflog, defaultIsBranch, nextId, ops>>
    /\ UNCHANGED <<fetchVars, limiterVars>>

SyncCommit(p) ==
    /\ pl[p].op = "sync"
    /\ PostCommit(p, <<"Registry Recon">>)

SyncUpdateRef(p) ==
    /\ pl[p].op = "sync"
    /\ PatchRef(p)

Sync(p) ==
    \/ SyncStart(p)
    \/ SyncGetRef(p)
    \/ SyncScan(p)
    \/ SyncPostRegistry(p)
    \/ SyncTree(p)
    \/ SyncCommit(p)
    \/ SyncUpdateRef(p)

Next == \E p \in Procs : Upload(p) \/ Delete(p) \/ Sync(p)

Spec == Init /\ [][Next]_vars

\* one caller, one call at a time, uploading buffers of every size
NextSolo ==
    \/ UploadStartAny("p1")
    \/ UploadSteps("p1")
    \/ Delete("p1")
    \/ Sync("p1")
SpecSolo == Init /\ [][NextSolo]_vars

(***************************************************************************)
(* fetch(assetPath, onUpdate)                                               *)
(*                                                                         *)
(* One run of fetch() on the asset a completed upload of `fbuf` published. *)
(* A step is the arrival of one response (with its body) at the single     *)
(* JavaScript thread, together with everything that runs before the thread *)
(* is idle again: the continuation of download(i), the reactions of        *)
(* p.finally, Promise.race and Promise.all, and the continuation of        *)
(* start().                                                                *)
(***************************************************************************)
\* the pathPrefix fetch() is asked for: that of the uploaded asset
FetchPrefix == AssetPath(1)
\* the body of a response whose status is not a success (an error page):
\* bytes that are not the chunk's
ErrBody == <<2, 2>>

\* what a mirror serves for a path of the published tree
MirrorBody(path) == repo[path].bytes

Total == manifest.totalChunks
InFlight == {k \in DOMAIN dl : dl[k] \in {"primary", "secondary", "stalled"}}
CanFault == faults > 0

\* a download that does not keep what arrived
MapDrop(cm, k, b) == cm
\* chunkMap.set(i, new Uint8Array(b))
MapSet(cm, k, b) == [j \in DOMAIN cm \cup {k} |-> IF j = k THEN b ELSE cm[j]]
\* a drain loop that leaves what it enqueued in the map
MapKeep(cm, k) == cm
\* chunkMap.delete(next)
MapDelete(cm, k) == [j \in DOMAIN cm \ {k} |-> cm[j]]

\* a download that enqueues what arrives as it arrives
EnqueueOnArrival(cm, nxt) ==
    IF DOMAIN cm = {} THEN [chunkMap |-> cm, next |-> nxt, emit |-> <<>>]
    ELSE LET k == CHOOSE j \in DOMAIN cm : TRUE
         IN [chunkMap |-> MapDelete(cm, k), next |-> nxt + 1,
             emit |-> <<[i |-> k, bytes |-> cm[k]]>>]
\* while (chunkMap.has(next)) { controller.enqueue(chunkMap.get(next));
\*                              chunkMap.delete(next); next++ }
RECURSIVE Drain(_, _)
Drain(cm, nxt) ==
    IF nxt \in DOMAIN cm
    THEN LET r == Drain(MapDelete(cm, nxt), nxt + 1)
         IN [chunkMap |-> r.chunkMap, next |-> r.next,
             emit |-> <<[i |-> nxt, bytes |-> cm[nxt]]>> \o r.emit]
    ELSE [chunkMap |-> cm, next |-> nxt, emit |-> <<>>]

\* a loop that launches every download without awaiting
LaunchAll(total) == 1..total
\* the synchronous prefix of `for (let i = 1; i <= manifest.totalChunks; i++)`:
\* downloads are launched until workers.length >= WINDOW
FirstBatch(total) == 1..Min(WINDOW, total)

\* the paths fetch() asks the mirrors for: manifest.json and chunk_1..chunk_N
ManifestFile == 0
\* a get() that asks both mirrors at once
LaunchBoth == <<"primary", "secondary">>
\* getManifest() and get() begin with `await fetch(`${sources[0]}/...`)`
Launch == <<"primary">>
\* catch { ... fetch(`${sources[1]}/...`) }: the primary's failure is followed
\* by the request to the secondary
Fallback == <<"primary failed", "secondary">>
\* the requests and answers of path j so far, then evs; the downloads in
\* launched begin
WireWith(j, evs, launched) ==
    [k \in DOMAIN wire \cup launched |->
        IF k = j THEN wire[j] \o evs
        ELSE IF k \in launched THEN Launch ELSE wire[k]]

\* new ReadableStream({async start(controller) {...}}): start() runs with the
\* constructor, launches the first batch and awaits Promise.race (the window
\* is full) or Promise.all (every download is launched); with no chunk at
\* all, Promise.all([]) resolves and the stream is closed at once.
StartStream(m, evs) ==
    /\ manifest' = m
    /\ wire' = WireWith(ManifestFile, evs, FirstBatch(m.totalChunks))
    /\ fpc' = "streaming"
    /\ dl' = [k \in 1..m.totalChunks |->
                 IF k \in FirstBatch(m.totalChunks) THEN "primary" ELSE "new"]
    /\ workers' = FirstBatch(m.totalChunks)
    /\ loopI' = Min(WINDOW, m.totalChunks) + 1
    /\ startPc' = IF m.totalChunks = 0 THEN "exit"
                  ELSE IF m.totalChunks <= WINDOW THEN "all" ELSE "race"
    /\ stream' = IF m.totalChunks = 0 THEN "closed" ELSE "open"
    /\ UNCHANGED <<chunkMap, next, out>>

\* fetch() throws before a stream exists
FetchRejects(why, evs) ==
    /\ fpc' = why
    /\ wire' = WireWith(ManifestFile, evs, {})
    /\ UNCHANGED <<manifest, stream, startPc, loopI, dl, chunkMap, next, out, workers>>

\* getManifest(): const res = await fetch(`${sources[0]}/manifest.json`);
\* if (res.ok) return ...; throw -> catch -> the secondary is asked
ManifestPrimary ==
    /\ fpc = "manifest1"
    /\ \/ /\ StartStream(repo[ManifestPath(FetchPrefix)].m, <<"primary ok">>)
          /\ UNCHANGED faults
       \/ /\ CanFault
          /\ faults' = faults - 1
          /\ fpc' = "manifest2"
          /\ wire' = WireWith(ManifestFile, Fallback, {})
          /\ UNCHANGED <<manifest, stream, startPc, loopI, dl, chunkMap, next,
                         out, workers>>
    /\ UNCHANGED <<fbuf, repo>>
    /\ UNCHANGED <<storeVars, limiterVars>>

\* the secondary's answer: if (!mRes.ok) throw new Error("Manifest not found.");
\* a rejected fetch() rejects getManifest()
ManifestSecondary ==
    /\ fpc = "manifest2"
    /\ \/ /\ StartStream(repo[ManifestPath(FetchPrefix)].m, <<"secondary ok">>)
          /\ UNCHANGED faults
       \/ /\ CanFault
          /\ faults' = faults - 1
          /\ \/ FetchRejects("manifest not found", <<"secondary not ok">>)
             \/ FetchRejects("transport", <<"secondary failed">>)
    /\ UNCHANGED <<fbuf, repo>>
    /\ UNCHANGED <<storeVars, limiterVars>>

\* download(i) settles: p.finally splices it from workers; a fulfilment
\* resolves a pending Promise.race, and start() launches download(loopI) and
\* awaits the next race or, past the last chunk, Promise.all; the last
\* fulfilment resolves Promise.all and start() closes the stream; a rejection
\* rejects the pending race or all, start() throws and the stream is errored.
Settled(i, status, evs) ==
    LET fulfilled == status \in {"done", "donebad"} IN
    /\ wire' = WireWith(i, evs, IF fulfilled /\ startPc = "race"
                                THEN {loopI} ELSE {})
    /\ IF fulfilled /\ startPc = "race"
       THEN /\ dl' = [dl EXCEPT ![i] = status, ![loopI] = "primary"]
            /\ workers' = (workers \ {i}) \cup {loopI}
            /\ loopI' = loopI + 1
            /\ startPc' = IF loopI = Total THEN "all" ELSE "race"
            /\ UNCHANGED stream
       ELSE IF fulfilled /\ startPc = "all" /\ workers \ {i} = {}
       THEN /\ dl' = [dl EXCEPT ![i] = status]
            /\ workers' = {}
            /\ startPc' = "exit"
            /\ stream' = "closed"
            /\ UNCHANGED loopI
       ELSE IF ~fulfilled /\ startPc \in {"race", "all"}
       THEN /\ dl' = [dl EXCEPT ![i] = status]
            /\ workers' = workers \ {i}
            /\ startPc' = "exit"
            /\ stream' = "errored"
            /\ UNCHANGED loopI
       ELSE /\ dl' = [dl EXCEPT ![i] = status]
            /\ workers' = workers \ {i}
            /\ UNCHANGED <<startPc, stream, loopI>>

\* const b = await r.arrayBuffer(); chunkMap.set(i, new Uint8Array(b)); the
\* drain loop; controller.enqueue throws once the stream is errored, which
\* rejects download(i) with the entry left in the map
Deliver(i, body, status, evs) ==
    LET cm == MapSet(chunkMap, i, body)
        d == Drain(cm, next)
    IN
    IF next \in DOMAIN cm /\ stream # "open"
    THEN /\ chunkMap' = cm
         /\ UNCHANGED <<next, out>>
         /\ Settled(i, "rejected", evs)
    ELSE /\ chunkMap' = d.chunkMap
         /\ next' = d.next
         /\ out' = out \o d.emit
         /\ Settled(i, status, evs)

\* get(): const r = await fetch(`${sources[0]}/chunk_${i}`); if (r.ok) return r;
\* a response that is not ok, or a rejected fetch, goes to the secondary; the
\* body of an ok response may still fail to arrive (r.arrayBuffer() rejects)
PrimaryResponse(i) ==
    /\ fpc = "streaming"
    /\ i \in DOMAIN dl
    /\ dl[i] = "primary"
    /\ \/ /\ Deliver(i, MirrorBody(ChunkPath(FetchPrefix, i)), "done",
                     <<"primary ok">>)
          /\ UNCHANGED faults
       \/ /\ CanFault
          /\ faults' = faults - 1
          /\ dl' = [dl EXCEPT ![i] = "secondary"]
          /\ wire' = WireWith(i, Fallback, {})
          /\ UNCHANGED <<stream, startPc, loopI, chunkMap, next, out, workers>>
       \/ /\ CanFault
          /\ faults' = faults - 1
          /\ Settled(i, "rejected", <<"primary ok", "body failed">>)
          /\ UNCHANGED <<chunkMap, next, out>>
    /\ UNCHANGED <<fbuf, repo, manifest, fpc>>
    /\ UNCHANGED <<storeVars, limiterVars>>

\* catch { return fetch(`${sources[1]}/chunk_${i}`, ...) }: the response is
\* returned whatever its status; a rejected fetch rejects download(i)
SecondaryResponse(i) ==
    /\ fpc = "streaming"
    /\ i \in DOMAIN dl
    /\ dl[i] = "secondary"
    /\ \/ /\ Deliver(i, MirrorBody(ChunkPath(FetchPrefix, i)), "done",
                     <<"secondary ok">>)
          /\ UNCHANGED faults
       \/ /\ CanFault
          /\ faults' = faults - 1
          /\ Deliver(i, ErrBody, "donebad", <<"secondary not ok">>)
       \/ /\ CanFault
          /\ faults' = faults - 1
          /\ Settled(i, "rejected", <<"secondary failed">>)
          /\ UNCHANGED <<chunkMap, next, out>>
    /\ UNCHANGED <<fbuf, repo, manifest, fpc>>
    /\ UNCHANGED <<storeVars, limiterVars>>

\* the primary never answers: fetch(`${sources[0]}/chunk_${i}`, { cache:
\* 'no-store' }) carries no signal and get() sets no timer, so its await has
\* nothing to resume on and download(i) stays pending
PrimaryStalls(i) ==
    /\ fpc = "streaming"
    /\ i \in DOMAIN dl
    /\ dl[i] = "primary"
    /\ CanFault
    /\ faults' = faults - 1
    /\ dl' = [dl EXCEPT ![i] = "stalled"]
    /\ UNCHANGED <<fbuf, repo, manifest, fpc, stream, startPc, loopI, chunkMap,
                   next, out, workers, wire>>
    /\ UNCHANGED <<storeVars, limiterVars>>

\* the store as fetch() leaves it: untouched
InitStore ==
    /\ head = [stamp |-> -1, tree |-> Single(ReadmePath, FileBlob),
               parent |-> NoCommit, message |-> <<"init">>]
    /\ reflog = <<head>>
    /\ defaultIsBranch = TRUE
    /\ nextId = 1
    /\ ops = 0
    /\ pl = [p \in Procs |-> Idle]

\* fetch() is called on the asset an upload of buffer published
InitFetchOf(buffer, budget) ==
    /\ fbuf = buffer
    /\ repo = UploadedItems(1, "a.bin", buffer)
    /\ manifest = NoManifest
    /\ fpc = "manifest1"
    /\ stream = "none"
    /\ startPc = "none"
    /\ loopI = 1
    /\ dl = <<>>
    /\ chunkMap = EmptyMap
    /\ next = 1
    /\ out = <<>>
    /\ workers = {}
    /\ faults = budget
    /\ wire = [j \in {ManifestFile} |-> Launch]

\* every buffer of at most MaxBufLen bytes
RECURSIVE SeqsUpTo(_)
SeqsUpTo(n) ==
    IF n = 0 THEN {<<>>}
    ELSE SeqsUpTo(n - 1) \cup {Append(b, x) : b \in SeqsUpTo(n - 1), x \in Bytes}
FetchBuffers == SeqsUpTo(MaxBufLen)
\* a buffer of WindowChunks chunks, more than the worker pool takes at once
WindowBuffer == [k \in 1..(WindowChunks * ChunkBytes) |-> k % 2]

InitFetch ==
    /\ InitStore
    /\ InitBucket
    /\ \E buffer \in FetchBuffers : InitFetchOf(buffer, MaxFaults)
InitWindow ==
    /\ InitStore
    /\ InitBucket
    /\ InitFetchOf(WindowBuffer, 0)

NextFetch ==
    \/ ManifestPrimary
    \/ ManifestSecondary
    \/ \E i \in 1..Total : PrimaryResponse(i) \/ SecondaryResponse(i)

SpecFetch == InitFetch /\ [][NextFetch]_vars
\* fetch() on a network that may also leave a primary request unanswered;
\* every answer that arrives is handled: the promise reactions of a settled
\* fetch run as soon as the event loop is free
NextFair ==
    \/ NextFetch
    \/ \E i \in 1..Total : PrimaryStalls(i)
SpecFair == InitFetch /\ [][NextFair]_vars /\ WF_vars(NextFetch)
\* the runs of fetch() in which every response is a success
NextWindow ==
    \/ ManifestPrimary
    \/ \E i \in 1..Total : PrimaryResponse(i)
SpecWindow == InitWindow /\ [][NextWindow]_vars

\* one caller uploading a buffer of WindowChunks chunks, more than ten
UploadStartLong(p) == UploadBegin(p, {[shape |-> "blob", bytes |-> WindowBuffer]})
NextLong ==
    \/ UploadStartLong("p1")
    \/ UploadSteps("p1")
SpecLong == Init /\ [][NextLong]_vars

\* the rate limiter on its own: calls at any cost, at any time
InitLimiter ==
    /\ InitStore
    /\ InitNoFetch
    /\ InitBucket
NextLimiter ==
    \/ Tick
    \/ \E cost \in Costs : acquire(cost)
    \/ getStatus
SpecLimiter == InitLimiter /\ [][NextLimiter]_vars

(***************************************************************************)
(* Properties of the mutating pipelines (checked under Spec).              *)
(***************************************************************************)
\* the positions of w that hold one of the events evs
Positions(w, evs) == {k \in 1..Len(w) : w[k] \in evs}
\* the paths of a tree that start with a prefix
IsPrefix(a, b) == Len(a) <= Len(b) /\ SubSeq(b, 1, Len(a)) = a
PathsUnder(tree, prefix) == {q \in DOMAIN tree : StartsWith(q, prefix)}
\* the ids a reader of a tree finds in its registry.json
RegistryIds(tree) ==
    IF RegistryPath \in DOMAIN tree /\ tree[RegistryPath].kind = "registry"
    THEN {tree[RegistryPath].assets[k].id : k \in DOMAIN tree[RegistryPath].assets}
    ELSE {}
\* the operations whose commit the branch has pointed to
Published == {reflog[k].stamp : k \in DOMAIN reflog}
WriteSteps == {"chunk", "manifest", "registry"}

\* C1: while an upload has not completed its final branch-pointer update, a
\* reader of the branch head finds none of the upload's chunk or manifest
\* paths in the head's tree and no entry for the upload in the head's
\* registry.
C1_NoPartialVisibility ==
    \A p \in Procs :
        (pl[p].op = "upload" /\ pl[p].pc \notin {"idle", "done"})
        => /\ PathsUnder(head.tree, AssetPath(pl[p].id)) = {}
           /\ pl[p].id \notin RegistryIds(head.tree)
\* an upload has written every blob, its tree and its commit and is about to
\* update the ref, while the other caller has already published an asset
C1_Witness ==
    \E p \in Procs :
        /\ pl[p].op = "upload" /\ pl[p].pc = "patch"
        /\ pl[p].commit.tree # head.tree
        /\ RegistryIds(head.tree) # {}
        /\ ManifestPath(AssetPath(pl[p].id)) \in DOMAIN pl[p].commit.tree

\* C2: an upload whose chunk, manifest or registry write failed has ended
\* with an error, it never moved the branch (the head is the commit it was, or
\* one another pipeline published), and none of its asset's paths is in the
\* tree of any commit the branch has pointed to.
C2_FailedWriteLeavesHead ==
    \A p \in Procs :
        (pl[p].op = "upload" /\ pl[p].reqFailed \in WriteSteps)
        => /\ pl[p].pc = "failed"
           /\ pl[p].stamp \notin Published
           /\ \A k \in DOMAIN reflog :
                 PathsUnder(reflog[k].tree, AssetPath(pl[p].id)) = {}
\* an upload failed at its registry write, after its chunks and its manifest
\* were written
C2_Witness ==
    \E p \in Procs :
        /\ pl[p].op = "upload" /\ pl[p].pc = "failed"
        /\ pl[p].reqFailed = "registry"
        /\ Len(pl[p].buffer) > 0

\* C7: when a purge has completed, the tree of the commit it made the branch
\* head has no path starting with the purged prefix and the registry of that
\* tree has no entry with the purged id.
C7_PurgeRemovesAsset ==
    \A p \in Procs :
        (pl[p].op = "delete" /\ pl[p].pc = "done")
        => /\ pl[p].stamp \in Published
           /\ PathsUnder(pl[p].commit.tree, pl[p].folderPath) = {}
           /\ pl[p].id \notin RegistryIds(pl[p].commit.tree)
\* a purge completed on a head whose tree held the asset's chunks and whose
\* registry listed it
C7_Witness ==
    \E p \in Procs :
        /\ pl[p].op = "delete" /\ pl[p].pc = "done"
        /\ head = pl[p].commit
        /\ PathsUnder(pl[p].baseSha.tree, pl[p].folderPath) # {}
        /\ pl[p].id \in RegistryIds(pl[p].baseSha.tree)

\* C8: when a purge has completed, no commit in the ancestry of the commit it
\* made the branch head has a tree with a path starting with the purged
\* prefix.
C8_PurgedUnreachableInHistory ==
    \A p \in Procs :
        (pl[p].op = "delete" /\ pl[p].pc = "done")
        => \A c \in Ancestry(pl[p].commit) :
              PathsUnder(c.tree, pl[p].folderPath) = {}

\* C9: a ref update that carries a commit whose parent is no longer the
\* branch head is rejected: the pipeline ends with an error and the head is
\* the commit it was immediately before the attempt.
C9_StaleParentRejected ==
    [][\A p \in Procs :
          (/\ pl[p].pc = "patch"
           /\ pl[p].commit.parent # head
           /\ pl'[p] # pl[p])
          => /\ pl'[p].pc = "failed"
             /\ head' = head]_vars
\* a pipeline's ref update was answered by the server with a rejection, after
\* the other caller moved the branch
C9_Witness ==
    \E p \in Procs :
        /\ pl[p].pc = "failed" /\ pl[p].failedAt = "conflict"
        /\ Len(reflog) > 1
        /\ pl[p].stamp \notin Published

\* C10: of the pipelines that read the same branch head at most one advances
\* the branch; a pipeline that completed published a commit on the head it
\* read, with exactly the tree it composed, and that commit stays in the
\* history of the branch (nothing a loser composed replaces it); the branch
\* only ever moves from a commit to a child of that commit.
C10_OneWinnerPerHead ==
    /\ \A p, q \in Procs :
          (p # q /\ pl[p].pc = "done" /\ pl[q].pc = "done")
          => pl[p].baseSha # pl[q].baseSha
    /\ \A p \in Procs :
          pl[p].pc = "done"
          => /\ pl[p].commit.parent = pl[p].baseSha
             /\ pl[p].commit \in Ancestry(head)
    /\ \A p \in Procs :
          (pl[p].pc = "failed" /\ pl[p].failedAt \in {"conflict", "patch"})
          => pl[p].stamp \notin Published
    /\ \A k \in 2..Len(reflog) : reflog[k].parent = reflog[k - 1]
    /\ head = reflog[Len(reflog)]
\* two pipelines read the same head, one advanced the branch and the other's
\* ref update was rejected
C10_Witness ==
    \E p, q \in Procs :
        /\ p # q
        /\ pl[p].pc = "done" /\ head = pl[p].commit
        /\ pl[q].pc = "failed" /\ pl[q].failedAt = "conflict"
        /\ pl[q].stamp > pl[p].stamp

\* the directory of a path: the path without its last segment
DirOf(path) == SubSeq(path, 1, Len(path) - 1)
\* what a reader of a tree can check of it: every manifest has its chunks
\* chunk_1..chunk_totalChunks beside it, and every entry of the registry has
\* manifest.json at its path
Consistent(tree) ==
    /\ \A q \in DOMAIN tree :
          tree[q].kind = "manifest"
          => \A i \in 1..tree[q].m.totalChunks :
                ChunkPath(DirOf(q), i) \in DOMAIN tree
    /\ \A k \in DOMAIN ListResult(tree, TRUE) :
          ManifestPath(ListResult(tree, TRUE)[k].path) \in DOMAIN tree

\* C11: the tree of the branch head is self-consistent after any sequence and
\* interleaving of uploads, purges and syncs: every manifest in it has all of
\* its chunk paths under the same prefix, and every entry of its registry has
\* its manifest at the entry's path.
C11_HeadSelfConsistent == Consistent(head.tree)

\* C12: the registry in the tree a successful upload published is the
\* registry of the tree the upload built on with the new asset prepended:
\* the new asset first, then every asset registered before, in the same
\* order.
C12_UploadPrependsToRegistry ==
    \A p \in Procs :
        (pl[p].op = "upload" /\ pl[p].pc = "done")
        => ListResult(pl[p].commit.tree, TRUE)
              = <<MakeAsset(pl[p].id, pl[p].name, pl[p].buffer)>>
                   \o ListResult(pl[p].baseSha.tree, TRUE)

\* the manifest.json paths of a tree
ManifestPaths(tree) == {q \in DOMAIN tree : EndsWithManifest(q)}

\* C14: a sync that completed on a head tree with K manifests, whatever the
\* tree's registry.json was (missing, not decodable, or listing other
\* assets), returned recovered = K and published a registry of exactly K
\* entries, one per manifest, with id, name, size, type, path and uploadedAt
\* equal to the manifest's id, fileName, totalSize, mimeType, pathPrefix and
\* uploadedAt; and a sync fails only when one of its requests fails.
C14_SyncRecoversManifests ==
    \A p \in Procs :
        /\ (pl[p].op = "sync" /\ pl[p].pc = "done")
           => LET base == pl[p].baseSha.tree
                  K == Cardinality(ManifestPaths(base))
                  reg == pl[p].commit.tree[RegistryPath]
              IN
              /\ pl[p].recovered = K
              /\ reg.kind = "registry"
              /\ Len(reg.assets) = K
              /\ \A q \in ManifestPaths(base) :
                    LET m == base[q].m IN
                    Cardinality({k \in 1..K :
                        reg.assets[k] =
                            [id |-> m.id, name |-> m.fileName,
                             size |-> m.totalSize, type |-> m.mimeType,
                             path |-> m.pathPrefix,
                             uploadedAt |-> m.uploadedAt]}) = 1
        /\ (pl[p].op = "sync" /\ pl[p].pc = "failed")
           => pl[p].reqFailed # "none"
\* a sync completed on a tree with two manifests of which the registry
\* listed one only, and the registry it published is the head's
C14_Witness ==
    \E p \in Procs :
        /\ pl[p].op = "sync" /\ pl[p].pc = "done"
        /\ head = pl[p].commit
        /\ Cardinality(ManifestPaths(pl[p].baseSha.tree)) = 2
        /\ Len(ListResult(pl[p].baseSha.tree, TRUE)) = 1
        /\ pl[p].recovered = 2


\* C15: list() never fails its caller.  In every step in which an upload
\* calls list(), the upload goes on (it does not end with an error), and what
\* list() returned is the empty sequence when the read failed, when
\* registry.json is missing or when its content is not a decodable registry,
\* and otherwise the entries of registry.json in stored order.
C15_ListNeverFails ==
    [][\A p \in Procs :
          (pl[p].op = "upload" /\ pl[p].pc = "list" /\ pl'[p] # pl[p])
          => /\ pl'[p].pc = "registry"
             /\ Tail(pl'[p].registry)
                   = IF \/ pl'[p].reqFailed = "list"
                        \/ RegistryPath \notin DOMAIN ContentsTree
                        \/ ContentsTree[RegistryPath].kind # "registry"
                     THEN <<>>
                     ELSE ContentsTree[RegistryPath].assets]_vars
\* an upload has called list() on a repository whose registry.json is not
\* JSON, the read itself having succeeded, and goes on with the new asset
\* alone
C15_Witness ==
    \E p \in Procs :
        /\ pl[p].op = "upload" /\ pl[p].pc = "registry"
        /\ pl[p].reqFailed = "none"
        /\ head.tree = GarbledTree
        /\ Len(pl[p].registry) = 1

\* the messages of a sequence of events
Messages(ev) == [k \in DOMAIN ev |-> ev[k].message]
Terminal(e) == e.type \in {"done", "error"}
\* the events of a run without its terminal event
Body(ev) ==
    IF ev # <<>> /\ Terminal(ev[Len(ev)]) THEN SubSeq(ev, 1, Len(ev) - 1) ELSE ev
\* the messages upload() and delete() emit, in the order of the source
UploadMessages(l) ==
    <<"Inverting Data">>
    \o [k \in 1..TotalChunks(Len(l.buffer), ChunkBytes) |-> "Pushing chunk " \o ToString(k)]
    \o <<"Finalizing manifest...", "Synchronizing registry...",
         "Creating atomic commit...", "Upload successful.">>
DeleteMessages ==
    <<"Purging entry", "Filtering repository tree...", "Patching registry index...",
      "Committing physical scrub...", "Purge verified.">>

\* C16: the events of every upload and purge run, as its route's stream
\* delivers them: while the run goes on there is no terminal event; once it
\* has ended there is exactly one, done when it succeeded and error when it
\* failed, and it is the last event; the events before it are the run's log
\* events in the order the source emits them (all of them when the run
\* succeeded).
C16_OneTerminalEventLast ==
    \A p \in Procs :
        pl[p].op \in {"upload", "delete"}
        => LET ev == pl[p].events
               expected == IF pl[p].op = "upload" THEN UploadMessages(pl[p])
                           ELSE DeleteMessages
           IN
           /\ \A k \in DOMAIN ev : Terminal(ev[k]) => k = Len(ev)
           /\ \A k \in DOMAIN Body(ev) : ev[k].type = "log"
           /\ (pl[p].pc = "done") <=> (ev # <<>> /\ ev[Len(ev)].type = "done")
           /\ (pl[p].pc = "failed") <=> (ev # <<>> /\ ev[Len(ev)].type = "error")
           /\ IsPrefix(Messages(Body(ev)), expected)
           /\ pl[p].pc = "done" => Messages(Body(ev)) = expected
\* a purge ended with done while the upload that ran beside it, its ref
\* update refused, ended with error after its log events
C16_Witness ==
    \E p, q \in Procs :
        /\ pl[p].op = "delete" /\ pl[p].pc = "done"
        /\ pl[p].events[Len(pl[p].events)].type = "done"
        /\ pl[q].op = "upload" /\ pl[q].failedAt = "conflict"
        /\ Len(pl[q].events) = 7
        /\ pl[q].events[7].type = "error"

\* the progress records among a sequence of events, in order
RECURSIVE ProgressOf(_)
ProgressOf(ev) ==
    IF ev = <<>> THEN <<>>
    ELSE Head(ev).progress \o ProgressOf(Tail(ev))

\* C17: every progress record an upload emits carries a percentage that is
\* an integer from 0 to 100, whatever the size of the buffer (the empty
\* buffer included), and the percentages of successive progress records never
\* decrease.
C17_PercentageInRange ==
    \A p \in Procs :
        pl[p].op = "upload"
        => LET pr == ProgressOf(pl[p].events) IN
           /\ \A k \in DOMAIN pr :
                 /\ ~pr[k].percentage.nan
                 /\ pr[k].percentage.v \in 0..100
           /\ \A j, k \in DOMAIN pr :
                 j <= k => pr[j].percentage.v <= pr[k].percentage.v


\* a purge that runs on the head a successful purge with the same arguments
\* published: the commit it read is a purge's for the same id, and its tree
\* has nothing left under the folder
Repeated(l) ==
    /\ l.op = "delete"
    /\ l.pc \in {"gettree", "regblob", "registry", "tree", "commit", "patch"}
    /\ l.baseSha.message[1] = "Scrub"
    /\ l.baseSha.message[2] = l.id
    /\ PathsUnder(l.baseSha.tree, l.folderPath) = {}

\* C18: a purge run again with the same arguments on the head a successful
\* purge published succeeds (no step of it fails unless its request fails or
\* the branch has moved), and the tree it publishes, registry.json included,
\* has the same content as the tree the first purge published.
C18_PurgeIdempotent ==
    [][\A q \in Procs :
          (Repeated(pl[q]) /\ pl'[q] # pl[q])
          => /\ pl'[q].pc = "failed" => pl'[q].reqFailed # "none"
             /\ pl'[q].pc = "done"
                => /\ pl'[q].commit.tree = pl[q].baseSha.tree
                   /\ head' = pl'[q].commit]_vars
\* two purges with the same arguments have completed one after the other:
\* the first removed the asset's files and its registry entry, the second
\* published the same tree again
C18_Witness ==
    \E p, q \in Procs :
        /\ p # q
        /\ pl[p].op = "delete" /\ pl[p].pc = "done"
        /\ pl[q].op = "delete" /\ pl[q].pc = "done"
        /\ pl[q].id = pl[p].id /\ pl[q].folderPath = pl[p].folderPath
        /\ pl[q].baseSha = pl[p].commit
        /\ PathsUnder(pl[p].baseSha.tree, pl[p].folderPath) # {}
        /\ pl[p].id \in RegistryIds(pl[p].baseSha.tree)
        /\ pl[q].commit.tree = pl[p].commit.tree
        /\ head = pl[q].commit

ManifestIds(tree) == {tree[q].m.id : q \in ManifestPaths(tree)}

\* C25: sync replaces the registry, it does not merge: the registry a
\* completed sync published lists exactly the assets whose manifest is in the
\* head tree it read, each once; an entry of the old registry.json without a
\* manifest is gone and a manifest without an entry has got one.
C25_SyncReplacesRegistry ==
    \A p \in Procs :
        (pl[p].op = "sync" /\ pl[p].pc = "done")
        => LET base == pl[p].baseSha.tree
               new == pl[p].commit.tree
           IN
           /\ RegistryIds(new) = ManifestIds(base)
           /\ Len(new[RegistryPath].assets) = Cardinality(ManifestIds(base))
           /\ \A id \in RegistryIds(base) \ ManifestIds(base) : id \notin RegistryIds(new)
           /\ \A id \in ManifestIds(base) \ RegistryIds(base) : id \in RegistryIds(new)
\* a sync completed on a tree whose registry listed an asset without manifest
\* besides one with a manifest, and the registry it published is the head's
C25_Witness ==
    \E p \in Procs :
        /\ pl[p].op = "sync" /\ pl[p].pc = "done"
        /\ head = pl[p].commit
        /\ RegistryIds(pl[p].baseSha.tree) \ ManifestIds(pl[p].baseSha.tree) # {}
        /\ RegistryIds(pl[p].baseSha.tree) \cap ManifestIds(pl[p].baseSha.tree) # {}
        /\ RegistryIds(head.tree) = ManifestIds(pl[p].baseSha.tree)

\* C26: a purge or a sync one of whose requests failed, or that found no
\* registry.json in the tree or could not decode what it read, has ended with
\* an error (the route reports a purge's as its last event), and none of the
\* commits the branch has pointed to is the operation's: head, tree and
\* registry are what they were, or what another pipeline published.
C26_FailedPurgeOrSyncLeavesHead ==
    \A p \in Procs :
        pl[p].op \in {"delete", "sync"}
        => /\ pl[p].reqFailed # "none" => pl[p].pc = "failed"
           /\ pl[p].pc = "failed"
              => /\ pl[p].stamp \notin Published
                 /\ pl[p].failedAt \in {"ref", "gettree", "regnode", "regblob",
                                        "parse", "blob", "registry", "tree",
                                        "commit", "patch", "conflict"}
                 /\ pl[p].op = "delete"
                    => pl[p].events[Len(pl[p].events)] = ErrorEvent
\* a purge failed at its commit write and a sync at its registry write, and
\* the branch still points to the commit it started with
C26_Witness ==
    \E p, q \in Procs :
        /\ pl[p].op = "delete" /\ pl[p].pc = "failed" /\ pl[p].reqFailed = "commit"
        /\ pl[q].op = "sync" /\ pl[q].pc = "failed" /\ pl[q].reqFailed = "registry"
        /\ reflog = <<head>>
        /\ RegistryIds(head.tree) # {}

\* the requests of an upload of total chunks, in the order of the source;
\* all but the head read ("ref") and list()'s read ("list") are writes
UploadOrder(total) ==
    <<"ref">> \o [k \in 1..total |-> "chunk"]
              \o <<"manifest", "list", "registry", "tree", "commit", "patch">>
\* the upload's own chunk count
ChunksOf(l) == TotalChunks(Len(l.buffer), ChunkBytes)

\* C27: the remote writes of an upload are issued in the order chunk objects,
\* manifest object, registry object, tree, commit, ref update; when the tree
\* is created every chunk write of the upload has been issued and none has
\* failed, and nothing is requested after the ref update.
C27_UploadWriteOrder ==
    \A p \in Procs :
        pl[p].op = "upload"
        => LET l == pl[p]
               total == ChunksOf(l)
           IN
           /\ IsPrefix(l.calls, UploadOrder(total))
           /\ Positions(l.calls, {"tree"}) # {}
              => /\ Cardinality(Positions(l.calls, {"chunk"})) = total
                 /\ l.reqFailed \notin WriteSteps
           /\ \A k \in 1..Len(l.calls) : l.calls[k] = "patch" => k = Len(l.calls)
           /\ l.pc = "done" => l.calls = UploadOrder(total)
\* an upload of three chunks completed
C27_Witness ==
    /\ pl["p1"].op = "upload"
    /\ pl["p1"].pc = "done"
    /\ ChunksOf(pl["p1"]) = 3
    /\ Len(pl["p1"].calls) = 10

\* the events of a run hold a done event
HasDone(l) == \E k \in 1..Len(l.events) : l.events[k].type = "done"

\* C28: an upload or a purge has emitted done (and returned its result) only
\* when its ref update succeeded: the request was its last, it did not fail,
\* and the branch has pointed to its commit; an upload or purge whose ref
\* update failed or was refused has emitted no done event.
C28_DoneOnlyAfterRefUpdate ==
    \A p \in Procs :
        pl[p].op \in {"upload", "delete"}
        => LET l == pl[p] IN
           /\ HasDone(l)
              => /\ l.pc = "done"
                 /\ l.calls # <<>> /\ l.calls[Len(l.calls)] = "patch"
                 /\ l.reqFailed # "patch"
                 /\ \E k \in DOMAIN reflog : reflog[k] = l.commit
           /\ l.pc = "done" => HasDone(l)
           /\ l.failedAt \in {"patch", "conflict"}
              => /\ ~HasDone(l)
                 /\ l.stamp \notin Published
\* an upload ended with done, the branch having pointed to its commit, while
\* the purge that ran beside it had its ref update refused and emitted none
C28_Witness ==
    \E p, q \in Procs :
        /\ pl[p].op = "upload" /\ HasDone(pl[p])
        /\ pl[p].commit \in {reflog[k] : k \in DOMAIN reflog}
        /\ pl[q].op = "delete" /\ pl[q].failedAt = "conflict"
        /\ ~HasDone(pl[q])

\* C29: an upload on a branch that does not exist fails at the head read,
\* its only request; and the request of an upload that failed is the last
\* one the upload issued.
C29_NoRequestAfterFailedCall ==
    \A p \in Procs :
        pl[p].op = "upload"
        => LET l == pl[p] IN
           /\ l.reqFailed = "ref" => (l.pc = "failed" /\ l.calls = <<"ref">>)
           /\ l.reqFailed # "none" => l.calls[Len(l.calls)] = l.reqFailed

\* C30: an upload whose input is none of the supported shapes has ended with
\* an error without issuing any request and without emitting any event (the
\* route reports the error as the stream's only event).
C30_UnsupportedInputRejected ==
    \A p \in Procs :
        (pl[p].op = "upload" /\ ~(pl[p].shape \in {"blob", "buffer", "object"}))
        => /\ pl[p].pc = "failed"
           /\ pl[p].failedAt = "input"
           /\ pl[p].calls = <<>>
           /\ Body(pl[p].events) = <<>>
           /\ pl[p].stamp \notin Published
\* an upload was rejected for its input, after another upload was published
C30_Witness ==
    /\ pl["p1"].op = "upload"
    /\ pl["p1"].failedAt = "input"
    /\ pl["p1"].shape = "other"
    /\ \E k \in DOMAIN reflog : reflog[k].message = <<"CDN Upload", "a.bin">>

\* the chunk writes an upload has issued that have no answer yet
ChunkWritesInFlight(l) ==
    IF l.pc \in {"idle", "done", "failed"} THEN 0
    ELSE Cardinality(Positions(l.calls, {"chunk"})) - l.i

\* C31: during an upload the chunk writes in flight at the same time are
\* never more than 10.
C31_ChunkWritesBounded ==
    \A p \in Procs :
        pl[p].op = "upload" => ChunkWritesInFlight(pl[p]) <= 10
\* the twelfth chunk write of an upload of twelve chunks is in flight
C31_Witness ==
    /\ pl["p1"].op = "upload"
    /\ pl["p1"].pc = "chunk"
    /\ ChunksOf(pl["p1"]) > 10
    /\ pl["p1"].i = ChunksOf(pl["p1"]) - 1
    /\ ChunkWritesInFlight(pl["p1"]) = 1

\* the entries of a registry whose id is not id, in stored order
Others(assets, id) ==
    LET Keep(a) == a.id # id IN SelectSeq(assets, Keep)

\* C32: a completed purge changed nothing outside its target: every path of
\* the head tree it read that does not start with the purged prefix and is not
\* registry.json is in the tree it published, mapped to the same object, and
\* the published registry holds the old registry's entries with another id,
\* in the same order.
C32_PurgeFrame ==
    \A p \in Procs :
        (pl[p].op = "delete" /\ pl[p].pc = "done")
        => LET old == pl[p].baseSha.tree
               new == pl[p].commit.tree
           IN
           /\ \A q \in DOMAIN old :
                 (~StartsWith(q, pl[p].folderPath) /\ q # RegistryPath)
                 => (q \in DOMAIN new /\ new[q] = old[q])
           /\ new[RegistryPath].kind = "registry"
           /\ new[RegistryPath].assets = Others(old[RegistryPath].assets, pl[p].id)
\* a purge of one asset by its own path completed on a tree holding another
\* asset, registered, which the published tree and registry still hold
C32_Witness ==
    \E p \in Procs :
        /\ pl[p].op = "delete" /\ pl[p].pc = "done"
        /\ head = pl[p].commit
        /\ pl[p].folderPath = AssetPath(pl[p].id)
        /\ PathsUnder(pl[p].baseSha.tree, pl[p].folderPath) # {}
        /\ \E id \in ManifestIds(head.tree) :
              /\ id # pl[p].id
              /\ id \in RegistryIds(head.tree)
              /\ Len(pl[p].baseSha.tree[RegistryPath].assets) = 2

\* the paths upload() adds for an asset of n chunks
AssetPaths(id, n) ==
    {ChunkPath(AssetPath(id), k) : k \in 1..n} \cup {ManifestPath(AssetPath(id))}

\* C33: a completed upload left every path of the head tree it read other
\* than registry.json mapped to the same object and added the new asset's
\* chunk_1..chunk_N and manifest.json paths and nothing else; a completed sync
\* changed the mapping of registry.json only.
C33_UploadAndSyncFrame ==
    \A p \in Procs :
        LET l == pl[p]
            old == l.baseSha.tree
            new == l.commit.tree
        IN
        /\ (l.op = "upload" /\ l.pc = "done")
           => /\ \A q \in DOMAIN old \ {RegistryPath} :
                    q \in DOMAIN new /\ new[q] = old[q]
              /\ (DOMAIN new \ DOMAIN old) \ {RegistryPath}
                    = AssetPaths(l.id, ChunksOf(l))
              /\ AssetPaths(l.id, ChunksOf(l)) \cap DOMAIN old = {}
        /\ (l.op = "sync" /\ l.pc = "done")
           => /\ DOMAIN new \ {RegistryPath} = DOMAIN old \ {RegistryPath}
              /\ \A q \in DOMAIN old \ {RegistryPath} : new[q] = old[q]
\* a sync completed on the tree a three-chunk upload had published over a
\* stocked repository
C33_Witness ==
    /\ pl["p1"].op = "sync" /\ pl["p1"].pc = "done"
    /\ head = pl["p1"].commit
    /\ Len(reflog) = 3
    /\ reflog[2].message = <<"CDN Upload", "a.bin">>
    /\ Cardinality(DOMAIN reflog[2].tree \ DOMAIN reflog[1].tree) = 4
    /\ Cardinality(ManifestIds(head.tree)) = 2

\* C34: the registry an upload reads and extends is the registry.json of the
\* configured branch at the head commit the upload read in its first step,
\* whether or not that branch is the repository's default branch: once list()
\* has answered, the upload's registry is the new asset followed by the
\* entries of that commit's registry.json.
C34_UploadReadsBranchRegistry ==
    \A p \in Procs :
        (/\ pl[p].op = "upload"
         /\ pl[p].pc \in {"registry", "tree", "commit", "patch"}
         /\ pl[p].reqFailed # "list")
        => pl[p].registry
              = <<MakeAsset(pl[p].id, pl[p].name, pl[p].buffer)>>
                   \o ListResult(pl[p].baseSha.tree, TRUE)

\* the entries of a tree's registry.json, as a set
RegistryEntries(tree) ==
    {ListResult(tree, TRUE)[k] : k \in DOMAIN ListResult(tree, TRUE)}
\* commit c was published by an upload, or by a purge called with the id and
\* the path of an asset the registry of c's parent listed
WellFormedStep(c) ==
    \/ c.message[1] = "CDN Upload"
    \/ /\ c.message[1] = "Scrub"
       /\ c.message[2] \in RegistryIds(c.parent.tree)
       /\ DOMAIN c.parent.tree \ DOMAIN c.tree
             = PathsUnder(c.parent.tree, AssetPath(c.message[2]))
\* the history of c is a stocked repository followed by uploads and purges of
\* registered assets by their own id and path
WellFormedHistory(c) ==
    /\ Root(c).tree = StockedTree
    /\ \A d \in Ancestry(c) \ {Root(c)} : WellFormedStep(d)

\* C35: after successful uploads and purges of registered assets by their own
\* id and path, a successful sync publishes a registry with the same entries
\* (the same ids, and per id the same name, size, type and path) as the
\* registry.json it found.
C35_SyncKeepsMembership ==
    \A p \in Procs :
        (/\ pl[p].op = "sync" /\ pl[p].pc = "done"
         /\ WellFormedHistory(pl[p].baseSha))
        => RegistryEntries(pl[p].commit.tree) = RegistryEntries(pl[p].baseSha.tree)

\* C36: in every progress record an upload emits, loaded is at most total,
\* the records of the last chunk of a buffer whose size is not a multiple of
\* the chunk size included.
C36_LoadedAtMostTotal ==
    \A p \in Procs :
        pl[p].op = "upload"
        => LET pr == ProgressOf(pl[p].events) IN
           \A k \in DOMAIN pr : pr[k].loaded <= pr[k].total

(***************************************************************************)
(* Properties of fetch() (checked under SpecFetch and SpecWindow).         *)
(***************************************************************************)
\* the bytes the consumer of the stream has read: the enqueued chunks joined
RECURSIVE Concat(_)
Concat(chunks) ==
    IF chunks = <<>> THEN <<>> ELSE Head(chunks).bytes \o Concat(Tail(chunks))
\* every response download() has used so far was a success
AllServed == \A k \in DOMAIN dl : dl[k] \notin {"donebad", "rejected"}

C4_EmitsInIndexOrder ==
    /\ \A k \in DOMAIN out : out[k].i = k
    /\ next = Len(out) + 1
    /\ Len(out) <= Total
    /\ (stream = "closed" /\ AllServed) => Len(out) = Total
\* fragment 3 arrived before fragment 2 and is held in the map, fragment 1
\* has been enqueued and fragment 2 is still being fetched
C4_Witness ==
    /\ fpc = "streaming" /\ stream = "open"
    /\ Total >= 3
    /\ Len(out) = 1
    /\ DOMAIN chunkMap = {3}
    /\ 2 \in InFlight

\* C5: the holding map of arrived but not yet emitted fragments never holds
\* more than W = 10 entries.
C5_HoldingMapBounded == Cardinality(DOMAIN chunkMap) <= WINDOW

\* C6: when a fragment has failed on both mirrors (the secondary answered
\* with a status that is not a success, or its fetch was rejected, after the
\* primary failed), the stream is errored (it is not open and was not closed
\* normally) and what the failed response carried was not enqueued.
C6_BothMirrorsFailAborts ==
    \A k \in DOMAIN dl :
        dl[k] \in {"donebad", "rejected"}
        => /\ stream = "errored"
           /\ \A j \in DOMAIN out : out[j].bytes # ErrBody

\* the chunk files of the asset a fetch reads, by index
ChunkFile(i) == repo[ChunkPath(FetchPrefix, i)]
RECURSIVE JoinChunks(_)
JoinChunks(n) == IF n = 0 THEN <<>> ELSE JoinChunks(n - 1) \o ChunkFile(n).bytes
\* the size of chunk n of a buffer of totalSize bytes
ChunkLen(n, chunkSize, totalSize) ==
    ChunkTo(n, chunkSize, totalSize) - ChunkFrom(n, chunkSize)
MiB == 1024 * 1024

\* what the tree holds of the buffer: totalChunks is the least count whose
\* chunks can hold the buffer; the chunk paths are exactly chunk_1..
\* chunk_totalChunks, one per index; chunk i holds the bytes
\* (i-1)*chunkSize+1 .. min(i*chunkSize, totalSize) of the buffer, is not
\* empty and at most chunkSize long; the chunks joined in index order are the
\* buffer
ChunksCoverBuffer ==
    LET m == repo[ManifestPath(FetchPrefix)].m
        n == m.totalChunks
    IN
    /\ m.totalSize = Len(fbuf)
    /\ n * m.chunkSize >= Len(fbuf)
    /\ n = 0 \/ (n - 1) * m.chunkSize < Len(fbuf)
    /\ {q \in DOMAIN repo : repo[q].kind = "chunk"}
          = {ChunkPath(FetchPrefix, i) : i \in 1..n}
    /\ Cardinality({ChunkPath(FetchPrefix, i) : i \in 1..n}) = n
    /\ \A i \in 1..n :
          /\ ChunkFile(i).bytes
                = SubSeq(fbuf, (i - 1) * m.chunkSize + 1,
                         Min(i * m.chunkSize, Len(fbuf)))
          /\ Len(ChunkFile(i).bytes) \in 1..m.chunkSize
    /\ JoinChunks(n) = fbuf
\* the sizes of the chunks of a 12 MiB buffer under the 5 MiB chunk size
TwelveMiBSizes ==
    [n \in 1..TotalChunks(12 * MiB, CHUNK_SIZE) |->
        ChunkLen(n, CHUNK_SIZE, 12 * MiB)]

\* C13 as stated: for every buffer the uploaded tree has totalChunks =
\* ceil(totalSize / chunkSize) chunks at the paths chunk_1..chunk_totalChunks,
\* each at most chunkSize long, chunk i being the byte range
\* [(i-1)*chunkSize, min(i*chunkSize, totalSize)), covering the buffer once;
\* and 12 MiB gives 3 chunks of 5242880, 5242880 and 1572864 bytes.
C13_ChunkingAsStated ==
    /\ ChunksCoverBuffer
    /\ TwelveMiBSizes = <<5242880, 5242880, 1572864>>
\* C13: for every buffer the uploaded tree has totalChunks =
\* ceil(totalSize / chunkSize) chunks at the paths chunk_1..chunk_totalChunks,
\* each at most chunkSize long, chunk i being the byte range
\* [(i-1)*chunkSize, min(i*chunkSize, totalSize)), covering the buffer once;
\* and 12 MiB gives 3 chunks of 5242880, 5242880 and 2097152 bytes (the
\* sizes add up to 12582912).
C13_ChunkingCoversBuffer ==
    /\ ChunksCoverBuffer
    /\ TwelveMiBSizes = <<5242880, 5242880, 2097152>>
    /\ 5242880 + 5242880 + 2097152 = 12 * MiB
\* a buffer that is not a multiple of the chunk size was uploaded as two full
\* chunks and a shorter one, and a fetch has read the three of them
C13_Witness ==
    /\ Len(fbuf) = 2 * ChunkBytes + 1
    /\ repo[ManifestPath(FetchPrefix)].m.totalChunks = 3
    /\ Len(ChunkFile(3).bytes) = 1
    /\ fpc = "streaming"
    /\ \A i \in 1..3 : i \in DOMAIN dl /\ dl[i] = "done"

\* C20: during a reconstruction the fragment fetches in flight (launched and
\* not yet settled) are never more than 10, whatever order they complete in;
\* neither are the promises start() holds in `workers`.
C20_InFlightBounded ==
    /\ Cardinality(InFlight) <= WINDOW
    /\ Cardinality(workers) <= WINDOW
    /\ InFlight \subseteq workers
\* the window is full again after a fetch completed and the next one was
\* launched in its place, with fragments still to launch
C20_Witness ==
    /\ fpc = "streaming"
    /\ Total = WindowChunks
    /\ Cardinality(InFlight) = WINDOW
    /\ loopI = WINDOW + 2
    /\ loopI <= Total
    /\ \E k \in DOMAIN dl : dl[k] = "done"

\* the requests to a mirror that have no answer yet
Outstanding(w) ==
    Cardinality(Positions(w, {"primary", "secondary"}))
    - Cardinality(Positions(w, {"primary ok", "primary failed", "secondary ok",
                                "secondary not ok", "secondary failed"}))

OnlyStalled ==
    /\ stream = "open"
    /\ faults = 0
    /\ \E i \in DOMAIN dl : dl[i] = "stalled"
    /\ \A i \in DOMAIN dl : dl[i] \notin {"donebad", "rejected"}

\* C22: when a fragment's request to the primary mirror never completes and
\* the secondary mirror is available, the fragment is eventually fetched from
\* the secondary and the reconstruction eventually completes.
C22_StalledPrimaryFallsBack == OnlyStalled ~> (stream = "closed")

\* some fetch of this reconstruction did not succeed: the manifest was not
\* obtained, or a fragment's request is unanswered, was rejected or was
\* answered with a non-success status by the last mirror asked
SomeFetchFailed ==
    \/ fpc \in {"manifest not found", "transport"}
    \/ \E i \in DOMAIN dl : dl[i] \in {"stalled", "rejected", "donebad"}
\* the indices the stream has emitted
Emitted == {out[k].i : k \in 1..Len(out)}

\* C23: when every fragment fetch eventually succeeds the output stream is
\* eventually closed; whenever it is closed every index 1..totalChunks has
\* been emitted, once each (nothing at all for totalChunks = 0), and the
\* holding map is empty.
C23_ClosesAfterAllEmitted ==
    /\ [](stream = "closed" =>
            /\ Emitted = 1..Total
            /\ Len(out) = Total
            /\ chunkMap = EmptyMap)
    /\ <>(stream = "closed" \/ SomeFetchFailed)
C23_Witness ==
    /\ stream = "closed"
    /\ Total = 3
    /\ ~SomeFetchFailed
    /\ \E j \in DOMAIN wire \ {ManifestFile} : Len(wire[j]) = 4

\* the manifest read failed on both mirrors
ManifestFailedOnBoth ==
    /\ ManifestFile \in DOMAIN wire
    /\ Positions(wire[ManifestFile], {"primary failed"}) # {}
    /\ Positions(wire[ManifestFile], {"secondary not ok", "secondary failed"}) # {}

\* C24: when the manifest read fails on both mirrors fetch() fails with the
\* manifest-not-found error, no stream exists and no fragment is requested;
\* when the primary fails and the secondary succeeds fetch() goes on with the
\* manifest the secondary served.
C24_ManifestNotFoundOnBothFailing ==
    /\ ManifestFailedOnBoth =>
          /\ fpc = "manifest not found"
          /\ stream = "none"
          /\ dl = <<>>
          /\ DOMAIN wire = {ManifestFile}
    /\ (/\ ManifestFile \in DOMAIN wire
        /\ Positions(wire[ManifestFile], {"secondary ok"}) # {}) =>
          /\ fpc = "streaming"
          /\ manifest = repo[ManifestPath(FetchPrefix)].m

\* the fragments whose body has arrived and was handed to the reorder buffer
Arrived == {k \in DOMAIN dl : dl[k] \in {"done", "donebad"}}
\* between two arrival handlers: next is one more than the number of
\* fragments emitted, the holding map holds only indices beyond next, and
\* fragment k is emitted once fragments 1..k have all arrived
ReorderInvariant ==
    /\ next = Len(out) + 1
    /\ next \notin DOMAIN chunkMap
    /\ \A k \in DOMAIN chunkMap : k > next
    /\ \A k \in 1..Len(out) : out[k].i = k
    /\ \A k \in DOMAIN dl : (1..k \subseteq Arrived) => k <= Len(out)

HadAfterRefill ==
    Min(capacity, reply.was.tokens + (reply.at - reply.was.lastRefill) * RefillRate)
\* C38: after any acquire and getStatus calls with non-negative costs and a
\* clock that never runs backwards, the bucket holds between 0 and capacity
\* tokens; an acquire returned true exactly when the refilled bucket held at
\* least its cost and then took exactly that cost, and otherwise took nothing.
C38_TokenBucket ==
    /\ 0 <= bucket.tokens
    /\ bucket.tokens <= capacity
    /\ reply.call = "acquire" =>
          /\ reply.ok <=> HadAfterRefill >= reply.cost
          /\ bucket.tokens = IF reply.ok THEN HadAfterRefill - reply.cost
                             ELSE HadAfterRefill
\* an acquire within capacity is refused by a drained bucket that time had
\* partly refilled, and the refill stays in the bucket
C38_Witness ==
    /\ reply.call = "acquire"
    /\ ~reply.ok
    /\ reply.cost <= capacity
    /\ reply.was.tokens < bucket.tokens
    /\ bucket.tokens < reply.cost

=============================================================================
